---------------------------- MODULE Spec2Model ----------------------------
(***************************************************************************)
(* A model of sfs.cc (shape-from-shading DEM refinement): the pointwise   *)
(* reflectance/intensity sample, the Intensity Residual functor, the      *)
(* initial affine estimation, the problem assembly with boundary pinning, *)
(* and the solve loop with its per-iteration callback.                    *)
(*                                                                         *)
(* Reals are fixed-point integers in units of 1/Milli.  Pixel coordinates *)
(* are kept in half pixels (a value p stands for the pixel p/2), so that  *)
(* fractional positions between two pixel centres exist.                  *)
(***************************************************************************)
EXTENDS Integers, Sequences, FiniteSets, TLC

(* ------------------------------ bounds -------------------------------- *)
MaxDim == 4
MaxImages == 2
MaxIter == 1
MaxThreads == 2
MaxStep == 1

(* ------------------------- program constants -------------------------- *)
Milli == 1000
nodata_val == -9999
NO_REFL == 0
LAMBERT == 1
LUNAR_LAMBERT == 2
phaseCoeffC2 == 501
tol == 300
grid_size == 1
HalfPixel == 2

\* The heights a DEM cell can hold in the model: flat ground, a step that
\* is steep against the grid size, and the no-data marker.
Heights == {0, 4, nodata_val}

Cells(nc, nr) == (0 .. nc - 1) \X (0 .. nr - 1)

\* residuals[0] is a double: the sentinel 1e+20, a computed value, or a
\* non-finite value (an operand was NaN or infinite).
Sentinel == [k |-> "sentinel", v |-> 0]
NonFinite == [k |-> "nan", v |-> 0]
Num(x) == [k |-> "num", v |-> x]

(* ----------------------------- arithmetic ----------------------------- *)
RECURSIVE SqrtIter(_, _, _)
SqrtIter(n, lo, hi) ==
  IF lo >= hi THEN lo
  ELSE LET mid == (lo + hi + 1) \div 2
       IN IF mid * mid <= n THEN SqrtIter(n, mid, hi)
          ELSE SqrtIter(n, lo, mid - 1)

\* sqrt() on a non-negative fixed-point operand, rounded down.
ISqrt(n) == SqrtIter(n, 0, 46340)

Abs(x) == IF x < 0 THEN -x ELSE x

\* The conversion of a double to int: the fraction is dropped, toward 0.
Trunc(x) == IF x < 0 THEN 0 - ((0 - x) \div Milli) ELSE x \div Milli

\* The unqualified abs of line 277 is resolved by the headers in scope:
\* to ::abs(int), which converts its double argument to int first, or to
\* the overload abs(double).
AbsOverloads == {"int", "double"}

abs(overload, x) ==
  IF overload = "int" THEN Milli * Abs(Trunc(x)) ELSE Abs(x)

(* ------------------------- reflectance model -------------------------- *)
\* The limb-darkening polynomial L(deg_alpha), lines 318-322.
LimbDarkening(deg_alpha) ==
  Milli - 19 * deg_alpha
        + (242 * deg_alpha * deg_alpha) \div 1000
        - (146 * deg_alpha * deg_alpha * deg_alpha) \div 100000

\* cos_alpha = dot_prod(sunDirection, viewDirection) is a cosine computed
\* in floating point: of two directions that coincide it is 1 or, by
\* rounding, the next double above 1 (and likewise below -1 of opposite
\* ones).  CosAbove stands for a value above 1 and CosBelow for one
\* below -1.
CosAbove == Milli + 1
CosBelow == 0 - (Milli + 1)

\* The test of line 305, which prints "cos_alpha error" and goes on.
CosAlphaError(cos_alpha) == cos_alpha > Milli \/ cos_alpha < 0 - Milli

\* Lines 309-310: acos(cos_alpha) in degrees, at the cosines of 0, 30, 90
\* and 180 degrees.  Of a cosine beyond [-1, 1] acos is NaN.
DegAlpha(cos_alpha) ==
  CASE cos_alpha = Milli -> 0
    [] cos_alpha = 866 -> 30
    [] cos_alpha = 0 -> 90
    [] cos_alpha = 0 - Milli -> 180

\* computeLunarLambertianReflectanceFromNormal over the quantities it
\* derives from its vector arguments: len = dot(normal, normal),
\* mu_0 = dot(sunDirection, normal), mu = dot(viewDirection, normal),
\* cos_alpha = dot(sunDirection, viewDirection) and expTerm =
\* exp(-c1*alpha) for a phase angle alpha that is a number.
\* exit |-> TRUE is the exit(1) of line 280; nan |-> TRUE says that the
\* value returned is NaN: alpha is, and so are L, the reflectance of line
\* 339, which is not <= 0, and its product of line 350.
computeLunarLambertianReflectanceFromNormal(overload, len, mu_0, mu, cos_alpha, expTerm, c2) ==
  IF 10 * abs(overload, len - Milli) > 1
  THEN [exit |-> TRUE, nan |-> FALSE, value |-> 0]
  ELSE IF mu_0 < tol THEN [exit |-> FALSE, nan |-> FALSE, value |-> 0]
  ELSE IF CosAlphaError(cos_alpha)
  THEN [exit |-> FALSE, nan |-> TRUE, value |-> 0]
  ELSE LET L == LimbDarkening(DegAlpha(cos_alpha))
           muc == IF mu < 0 THEN 0 ELSE mu
           r == (2 * L * mu_0) \div (mu_0 + muc) + ((Milli - L) * mu_0) \div Milli
       IN IF mu_0 < 0 THEN [exit |-> FALSE, nan |-> FALSE, value |-> 0]
          ELSE IF mu_0 + muc = 0 THEN [exit |-> FALSE, nan |-> FALSE, value |-> 0]
          ELSE IF r <= 0 THEN [exit |-> FALSE, nan |-> FALSE, value |-> 0]
          ELSE [exit |-> FALSE, nan |-> FALSE,
                value |-> (r * (expTerm + c2)) \div Milli]

\* computeLambertianReflectanceFromNormal: dot(sunDirection, normal).
computeLambertianReflectanceFromNormal(mu_0) ==
  [exit |-> FALSE, nan |-> FALSE, value |-> mu_0]

\* ComputeReflectance: the switch on global_params.reflectanceType.
ComputeReflectance(reflectanceType, overload, len, mu_0, mu, cos_alpha, expTerm, c2) ==
  IF reflectanceType = LUNAR_LAMBERT
  THEN computeLunarLambertianReflectanceFromNormal(overload, len, mu_0, mu,
                                                   cos_alpha, expTerm, c2)
  ELSE IF reflectanceType = LAMBERT
  THEN computeLambertianReflectanceFromNormal(mu_0)
  ELSE [exit |-> FALSE, nan |-> FALSE, value |-> Milli]

(* -------------------------- surface geometry -------------------------- *)
\* The cosine between the vertical and normal =
\* -normalize(cross_prod(right - base, top - base)) for grid points one
\* grid_size apart: grid_size / sqrt(grid_size^2 + dx^2 + dy^2), with
\* dx = right_h - center_h and dy = top_h - center_h.  The sun and the
\* camera of the scene stand at the zenith, so this is both mu_0 and mu.
NormalCosine(center_h, right_h, top_h) ==
  LET dx == right_h - center_h
      dy == top_h - center_h
      g2 == grid_size * grid_size
  IN ISqrt((Milli * Milli * g2) \div (g2 + dx * dx + dy * dy))

(* ------------------------ camera and image ---------------------------- *)
\* A camera of the scene: it looks straight down, shifted by dx half
\* pixels along the columns, and has a valid ray only for a point whose
\* height is in minH .. maxH (point_to_pixel throws PointToPixelErr for
\* any other).  Its sun_position() and camera_center() (lines 793-794)
\* are one point at the zenith, so the sun and the view direction of a
\* scene point coincide; above1 holds the scene points <<col, row, h>> at
\* which their dot product rounds above 1.
PlainCamera == [dx |-> 0, minH |-> nodata_val, maxH |-> 9, above1 |-> {}]

Cameras ==
  {PlainCamera,
   [PlainCamera EXCEPT !.dx = 1],
   [PlainCamera EXCEPT !.dx = 2],
   [PlainCamera EXCEPT !.maxH = 3],
   [PlainCamera EXCEPT !.minH = -100],
   [PlainCamera EXCEPT !.above1 = {<<1, 1, 0>>}]}

CameraThrows(cam, h) == h < cam.minH \/ h > cam.maxH

\* dot_prod(sunDirection, viewDirection) at the scene point (line 304).
CosAlpha(cam, col, row, h) ==
  IF <<col, row, h>> \in cam.above1 THEN CosAbove ELSE Milli

\* Lines 444-452: the normal of the three points and its reflectance at
\* the point base under the run's global_params (reflectanceType =
\* LUNAR_LAMBERT, line 762).  The normal is normalized, so
\* abs(len - 1.0) is 0 under either overload of abs, and exp(-c1*alpha)
\* is 1 at the phase angle 0.  The reflectance is a double: a number or
\* NaN.
SurfaceReflectance(cam, col, row, center_h, right_h, top_h) ==
  LET c == NormalCosine(center_h, right_h, top_h)
      rs == {ComputeReflectance(LUNAR_LAMBERT, o, Milli, c, c,
                                CosAlpha(cam, col, row, center_h), Milli,
                                phaseCoeffC2) : o \in AbsOverloads}
      r == CHOOSE x \in rs : TRUE
  IN IF r.nan THEN NonFinite ELSE Num(r.value)

\* camera->point_to_pixel(base), in half pixels.
point_to_pixel(cam, col, row) ==
  <<HalfPixel * col + cam.dx, HalfPixel * row>>

\* The pixels of input image i (intensities in 1/Milli).
ImagePixel(i, x, y) == 100 * (1 + ((x + 2 * y + i) % 4))

\* BilinearInterpT::operator(): bilinear interpolation at a half-pixel
\* position.
BilinearInterp(i, px, py) ==
  LET x0 == px \div HalfPixel
      y0 == py \div HalfPixel
      fx == px % HalfPixel
      fy == py % HalfPixel
  IN ( (HalfPixel - fx) * (HalfPixel - fy) * ImagePixel(i, x0, y0)
     + fx * (HalfPixel - fy) * ImagePixel(i, x0 + 1, y0)
     + (HalfPixel - fx) * fy * ImagePixel(i, x0, y0 + 1)
     + fx * fy * ImagePixel(i, x0 + 1, y0 + 1) ) \div (HalfPixel * HalfPixel)

\* Lines 456-458: the out-of-range test on the projected pixel, for an
\* image of image_cols x image_rows pixels.  TRUE when the sample goes on.
\* The test with > where the code has >=: for comparison only.
PixelInRangeClosed(px, py, image_cols, image_rows) ==
  /\ ~(px < 0 \/ px > HalfPixel * (image_cols - 1))
  /\ ~(py < 0 \/ py > HalfPixel * (image_rows - 1))

PixelInRange(px, py, image_cols, image_rows) ==
  /\ ~(px < 0 \/ px >= HalfPixel * (image_cols - 1))
  /\ ~(py < 0 \/ py >= HalfPixel * (image_rows - 1))

(* ------------------------------- state -------------------------------- *)
VARIABLES
  ncols, nrows,      \* dem.cols(), dem.rows()
  num_images,        \* opt.input_images.size()
  max_iterations,    \* opt.max_iterations
  num_threads,       \* opt.num_threads
  camera,            \* cameras[0]
  dem,               \* the DEM heights in main()'s ImageView
  dem0,              \* the DEM as it was read
  par,               \* the solver's own values of the parameter blocks
  g_errorCount,      \* how many times the no-data error was counted
  A,                 \* the affine parameters A[0], A[1]
  pc,                \* where main() is
  loop,              \* <<col, row>> of the assembly loop
  blocks,            \* the residual blocks of the problem, in order
  constant,          \* the parameter blocks set constant
  step,              \* where the solver is inside ceres::Solve
  iter,              \* the solver's iteration number
  tpc, ttmp,         \* each solver thread's position and loaded counter
  lastEval,          \* the last Intensity Residual evaluation
  g_iter,            \* the callback's iteration counter
  calls,             \* the callback invocations: what each wrote, in order
  probe              \* the input of a function tested by itself, and its answer

vars == <<ncols, nrows, num_images, max_iterations, num_threads, camera, dem, dem0,
          par, g_errorCount, A, pc, loop, blocks, constant, step, iter, tpc, ttmp,
          lastEval, g_iter, calls, probe>>

\* image.cols(), image.rows(): the images of the scenes are of the size of
\* the DEM.
image_cols == ncols
image_rows == nrows

(* --------------------- the pointwise sample --------------------------- *)
\* The tests without  && g_errorCount == 0: for comparison only.
NoDataReportedEveryTime(center_h, right_h, top_h, errorCount) ==
  center_h = nodata_val \/ right_h = nodata_val \/ top_h = nodata_val

\* One of the three tests  h == nodata_val && g_errorCount == 0
\* (lines 413, 425, 436) is true.
NoDataReported(center_h, right_h, top_h, errorCount) ==
  /\ errorCount = 0
  /\ center_h = nodata_val \/ right_h = nodata_val \/ top_h = nodata_val

\* bool computeReflectanceAndIntensity(center_h, right_h, top_h, col, row,
\* ...), lines 390-463, reading g_errorCount as errorCount.  ret is the
\* value returned, thrown says that point_to_pixel threw instead, and
\* report that the no-data message was printed and g_errorCount++ is due.
\* reflectance and intensity are the doubles left in the two outputs.
computeReflectanceAndIntensity(center_h, right_h, top_h, col, row, errorCount, cam, image) ==
  IF col >= ncols - 1 \/ row >= nrows - 1
  THEN [ret |-> FALSE, thrown |-> FALSE, report |-> FALSE,
        reflectance |-> Num(0), intensity |-> Num(0)]
  ELSE IF NoDataReported(center_h, right_h, top_h, errorCount)
  THEN [ret |-> FALSE, thrown |-> FALSE, report |-> TRUE,
        reflectance |-> Num(0), intensity |-> Num(0)]
  ELSE LET reflectance == SurfaceReflectance(cam, col, row, center_h, right_h, top_h)
           pix == point_to_pixel(cam, col, row)
       IN IF CameraThrows(cam, center_h)
          THEN [ret |-> FALSE, thrown |-> TRUE, report |-> FALSE,
                reflectance |-> reflectance, intensity |-> Num(0)]
          ELSE IF ~PixelInRange(pix[1], pix[2], image_cols, image_rows)
          THEN [ret |-> FALSE, thrown |-> FALSE, report |-> FALSE,
                reflectance |-> reflectance, intensity |-> Num(0)]
          ELSE [ret |-> TRUE, thrown |-> FALSE, report |-> FALSE,
                reflectance |-> reflectance,
                intensity |-> Num(BilinearInterp(image, pix[1], pix[2]))]

(* ------------------------ Intensity Residual -------------------------- *)
\* intensity - A[0]*reflectance - A[1], line 601.
ResidualValue(a, reflectance, intensity) ==
  IF a.finite /\ reflectance.k = "num" /\ intensity.k = "num"
  THEN Num(intensity.v - (a.a0 * reflectance.v) \div Milli - a.a1)
  ELSE NonFinite

\* IntensityError::operator(), lines 579-608.
IntensityError(a, center_h, right_h, top_h, col, row, errorCount, cam, image) ==
  LET s == computeReflectanceAndIntensity(center_h, right_h, top_h, col, row,
                                          errorCount, cam, image)
  IN IF s.thrown
     THEN [ret |-> FALSE, residual |-> Sentinel, report |-> FALSE]
     ELSE [ret |-> s.ret, report |-> s.report,
           residual |-> IF s.ret
                        THEN ResidualValue(a, s.reflectance, s.intensity)
                        ELSE Sentinel]

(* ------------------ the sample over the whole grid -------------------- *)
\* The images after set_size(dem.cols(), dem.rows()): all zero.
ZeroImage == [c \in Cells(ncols, nrows) |-> Num(0)]

SampleCount == IF ncols > 1 /\ nrows > 1 THEN (ncols - 1) * (nrows - 1) ELSE 0

\* void computeReflectanceAndIntensity(dem, ...), lines 465-490: the k-th
\* sample of the double loop (col outer, row inner) and the ones after it.
\* acc carries g_errorCount, the two images, whether a sample threw, and
\* the cells whose sample returned true.
RECURSIVE BatchFrom(_, _)
BatchFrom(k, acc) ==
  IF k >= SampleCount \/ acc.thrown THEN acc
  ELSE LET col == k \div (nrows - 1)
           row == k % (nrows - 1)
           s == computeReflectanceAndIntensity(
                  dem[<<col, row>>], dem[<<col + 1, row>>], dem[<<col, row + 1>>],
                  col, row, acc.errorCount, camera, 0)
       IN BatchFrom(k + 1,
            [errorCount |-> IF s.report THEN acc.errorCount + 1 ELSE acc.errorCount,
             reflectance |-> [acc.reflectance EXCEPT ![<<col, row>>] = s.reflectance],
             intensity |-> [acc.intensity EXCEPT ![<<col, row>>] = s.intensity],
             thrown |-> s.thrown,
             sampled |-> IF s.ret THEN acc.sampled \cup {<<col, row>>}
                         ELSE acc.sampled])

BatchReflectanceAndIntensity ==
  BatchFrom(0, [errorCount |-> g_errorCount, reflectance |-> ZeroImage,
                intensity |-> ZeroImage, thrown |-> FALSE, sampled |-> {}])

(* --------------------------- image statistics ------------------------- *)
RECURSIVE SumOver(_, _, _)
SumOver(I, S, pow) ==
  IF S = {} THEN 0
  ELSE LET c == CHOOSE e \in S : TRUE
       IN (IF pow = 2 THEN I[c].v * I[c].v ELSE I[c].v) + SumOver(I, S \ {c}, pow)

\* compute_image_stats, lines 84-104: is_valid() holds of every double, so
\* every pixel of the image is counted.  A NaN pixel makes the sums, the
\* mean and the standard deviation NaN (finite |-> FALSE).
compute_image_stats(I) ==
  LET count == Cardinality(DOMAIN I)
      sum == SumOver(I, DOMAIN I, 1)
      sum2 == SumOver(I, DOMAIN I, 2)
      mean == IF count > 0 THEN sum \div count ELSE 0
  IN [count |-> count, sum |-> sum, sum2 |-> sum2, mean |-> mean,
      stdev |-> IF count > 0 THEN ISqrt(sum2 \div count - mean * mean) ELSE 0,
      finite |-> \A c \in DOMAIN I : I[c].k = "num"]

\* Lines 823-827: A[0] = imgstdev/refstdev, A[1] = imgmean - A[0]*refmean.
\* A zero refstdev or a NaN among the statistics makes both non-finite.
EstimateA(reflectance, intensity) ==
  LET img == compute_image_stats(intensity)
      ref == compute_image_stats(reflectance)
  IN IF ~img.finite \/ ~ref.finite \/ ref.stdev = 0
     THEN [finite |-> FALSE, a0 |-> 0, a1 |-> 0]
     ELSE LET a0 == (img.stdev * Milli) \div ref.stdev
          IN [finite |-> TRUE, a0 |-> a0,
              a1 |-> img.mean - (a0 * ref.mean) \div Milli]

(* -------------------------- problem assembly -------------------------- *)
\* The parameter block A, beside the cells <<col, row>> of the DEM.
ParamA == <<-1, -1>>

\* &dem(col-1, row+1), ... &dem(col+1, row-1) as passed to AddResidualBlock
\* (lines 844-849 and 856-861): tl, top, tr, left, center, right, bl,
\* bottom, br.
Neighborhood(col, row) ==
  << <<col - 1, row + 1>>, <<col, row + 1>>, <<col + 1, row + 1>>,
     <<col - 1, row>>,     <<col, row>>,     <<col + 1, row>>,
     <<col - 1, row - 1>>, <<col, row - 1>>, <<col + 1, row - 1>> >>

\* The second image in place of the first: for comparison only.
BlockImagesSecond == {1}

\* The images whose Intensity Residual is added for a grid point: the
\* first one (model_params[0], interp_images[0], cameras[0], lines 838-840).
BlockImages == {0}

\* Lines 836-861: the blocks added for the grid point (col, row).
BlocksAt(col, row) ==
  << [kind |-> "intensity", col |-> col, row |-> row,
      image |-> CHOOSE i \in BlockImages : TRUE,
      params |-> <<ParamA>> \o Neighborhood(col, row)],
     [kind |-> "smoothness", col |-> col, row |-> row, image |-> -1,
      params |-> Neighborhood(col, row)] >>

\* The pinning without its last case (row == dem.rows() - 2): for
\* comparison only.
PinnedAtOmittingTop(col, row) ==
  (IF col = 1
   THEN {<<col - 1, row - 1>>, <<col - 1, row>>, <<col - 1, row + 1>>} ELSE {})
  \cup
  (IF row = 1
   THEN {<<col - 1, row - 1>>, <<col, row - 1>>, <<col + 1, row - 1>>} ELSE {})
  \cup
  (IF col = ncols - 2
   THEN {<<col + 1, row - 1>>, <<col + 1, row>>, <<col + 1, row + 1>>} ELSE {})

\* Lines 863-887: the cells set constant at the grid point (col, row).
PinnedAt(col, row) ==
  (IF col = 1
   THEN {<<col - 1, row - 1>>, <<col - 1, row>>, <<col - 1, row + 1>>} ELSE {})
  \cup
  (IF row = 1
   THEN {<<col - 1, row - 1>>, <<col, row - 1>>, <<col + 1, row - 1>>} ELSE {})
  \cup
  (IF col = ncols - 2
   THEN {<<col + 1, row - 1>>, <<col + 1, row>>, <<col + 1, row + 1>>} ELSE {})
  \cup
  (IF row = nrows - 2
   THEN {<<col - 1, row + 1>>, <<col, row + 1>>, <<col + 1, row + 1>>} ELSE {})

\* The loop conditions with row < dem.rows(): for comparison only.
InLoopThroughTopRow(col, row) == col < ncols - 1 /\ row < nrows

\* The loop conditions of lines 833-834.
InLoop(col, row) == col < ncols - 1 /\ row < nrows - 1

\* The double loop's next (col, row): row++ and, at the end of a column,
\* col++ with row = 1.
NextCell(col, row) ==
  IF InLoop(col, row + 1) THEN <<col, row + 1>> ELSE <<col + 1, 1>>

\* The parameter blocks the problem knows: those of its residual blocks.
AddedParams ==
  UNION {{blocks[b].params[j] : j \in 1 .. Len(blocks[b].params)} :
         b \in 1 .. Len(blocks)}

(* ------------------------------ the run ------------------------------- *)
Threads == 1 .. num_threads

NoEval == [col |-> -1, row |-> -1, center |-> 0, right |-> 0, top |-> 0,
           errorCount |-> 0, image |-> -1, ret |-> FALSE, residual |-> Sentinel]

\* The DEMs a run starts from: flat ground, or flat ground with one cell
\* that is a step or holds no data.
FlatDem(nc, nr) == [c \in Cells(nc, nr) |-> 0]

InitialDems(nc, nr) ==
  {FlatDem(nc, nr)} \cup
  {[c \in Cells(nc, nr) |-> IF c = e THEN h ELSE 0] :
     e \in Cells(nc, nr) \cap {<<0, 0>>, <<1, 1>>, <<2, 1>>, <<1, 2>>},
     h \in Heights \ {0}}

InitRest ==
  /\ g_errorCount = 0
  /\ A = [finite |-> FALSE, a0 |-> 0, a1 |-> 0]
  /\ pc = "estimate"
  /\ loop = <<1, 1>>
  /\ blocks = << >>
  /\ constant = {}
  /\ step = "none"
  /\ iter = 0
  /\ tpc = [t \in Threads |-> "idle"]
  /\ ttmp = [t \in Threads |-> 0]
  /\ lastEval = NoEval
  /\ g_iter = -1
  /\ calls = << >>
  /\ dem0 = dem
  /\ par = dem

\* main() up to line 812 has read the DEM, the images and the cameras.
\* The inputs are drawn from four families: grids of every size with every
\* number of images, grids of every size through one solver iteration,
\* small grids under every scene and thread count, and the smallest grid
\* under every iteration limit.
InitGrids ==
  /\ ncols \in 1 .. MaxDim
  /\ nrows \in 1 .. MaxDim
  /\ num_images \in 1 .. MaxImages
  /\ max_iterations = 0
  /\ num_threads = 1
  /\ camera = PlainCamera
  /\ dem = FlatDem(ncols, nrows)

InitUpdates ==
  /\ ncols \in 3 .. MaxDim
  /\ nrows \in 3 .. MaxDim
  /\ num_images = 1
  /\ max_iterations = 1
  /\ num_threads = 1
  /\ camera = PlainCamera
  /\ dem = FlatDem(ncols, nrows)

InitScenes ==
  /\ ncols \in {3, 4}
  /\ nrows = 3
  /\ num_images = 1
  /\ max_iterations = 1
  /\ num_threads \in 1 .. MaxThreads
  /\ camera \in Cameras
  /\ dem \in InitialDems(ncols, nrows)

InitLoops ==
  /\ ncols = 3
  /\ nrows = 3
  /\ num_images = 1
  /\ max_iterations \in 0 .. MaxIter
  /\ num_threads = 1
  /\ camera \in Cameras
  /\ dem \in InitialDems(ncols, nrows)

NoProbe == [px |-> 0, py |-> 0, tested |-> FALSE, inside |-> FALSE]

Init ==
  /\ InitGrids \/ InitUpdates \/ InitScenes \/ InitLoops
  /\ probe = NoProbe
  /\ InitRest

\* Lines 816-828: the initial affine estimation.  An exception of the
\* camera leaves the loop and main()'s try block.
EstimateAffine ==
  /\ pc = "estimate"
  /\ LET b == BatchReflectanceAndIntensity
     IN /\ g_errorCount' = b.errorCount
        /\ IF b.thrown
           THEN /\ pc' = "threw_estimate"
                /\ A' = A
           ELSE /\ pc' = "assemble"
                /\ A' = EstimateA(b.reflectance, b.intensity)
  /\ UNCHANGED <<ncols, nrows, dem0, num_images, max_iterations, num_threads, camera,
                 dem, par, loop, blocks, constant, step, iter, tpc, ttmp, lastEval,
                 g_iter, calls, probe>>

\* One pass of the loop body of lines 833-890.
AssembleCell ==
  /\ pc = "assemble"
  /\ InLoop(loop[1], loop[2])
  /\ blocks' = blocks \o BlocksAt(loop[1], loop[2])
  /\ constant' = constant \cup PinnedAt(loop[1], loop[2])
  /\ loop' = NextCell(loop[1], loop[2])
  /\ UNCHANGED <<ncols, nrows, dem0, num_images, max_iterations, num_threads, camera,
                 dem, par, g_errorCount, A, pc, step, iter, tpc, ttmp, lastEval,
                 g_iter, calls, probe>>

\* A left variable: for comparison only.
ConstantAtSolveNone == {}

\* Line 893: problem.SetParameterBlockConstant(A).
ConstantAtSolve == {ParamA}

\* Lines 892-921: A is set constant, the options and the callback's
\* globals are set and ceres::Solve is entered.  Setting constant a
\* parameter block the problem does not hold is fatal in the solver.
StartSolve ==
  /\ pc = "assemble"
  /\ ~InLoop(loop[1], loop[2])
  /\ IF ConstantAtSolve \subseteq AddedParams
     THEN /\ constant' = constant \cup ConstantAtSolve
          /\ pc' = "solve"
          /\ step' = "evaluate"
     ELSE /\ pc' = "fatal"
          /\ UNCHANGED <<constant, step>>
  /\ UNCHANGED <<ncols, nrows, dem0, num_images, max_iterations, num_threads, camera,
                 dem, par, g_errorCount, A, loop, blocks, iter, tpc, ttmp, lastEval,
                 g_iter, calls, probe>>

\* A solver thread evaluates Intensity Residual block b on the solver's
\* parameter values.  When a no-data test finds g_errorCount == 0 the
\* thread has printed the message and g_errorCount++ is still to run.
EvalIntensity(t, b) ==
  /\ pc = "solve" /\ step = "evaluate"
  /\ tpc[t] = "idle"
  /\ blocks[b].kind = "intensity"
  /\ LET col == blocks[b].col
         row == blocks[b].row
         center == par[blocks[b].params[6]]
         right == par[blocks[b].params[7]]
         top == par[blocks[b].params[3]]
         r == IntensityError(A, center, right, top, col, row, g_errorCount,
                             camera, blocks[b].image)
     IN /\ lastEval' = [col |-> col, row |-> row, center |-> center,
                        right |-> right, top |-> top,
                        errorCount |-> g_errorCount, image |-> blocks[b].image,
                        ret |-> r.ret, residual |-> r.residual]
        /\ tpc' = [tpc EXCEPT ![t] = IF r.report THEN "load" ELSE "idle"]
  /\ UNCHANGED <<ncols, nrows, dem0, num_images, max_iterations, num_threads, camera,
                 dem, par, g_errorCount, A, pc, loop, blocks, constant, step, iter,
                 ttmp, g_iter, calls, probe>>

\* g_errorCount++ is a load and a store of a plain int.
IncLoad(t) ==
  /\ tpc[t] = "load"
  /\ ttmp' = [ttmp EXCEPT ![t] = g_errorCount]
  /\ tpc' = [tpc EXCEPT ![t] = "store"]
  /\ UNCHANGED <<ncols, nrows, dem0, num_images, max_iterations, num_threads, camera,
                 dem, par, g_errorCount, A, pc, loop, blocks, constant, step, iter,
                 lastEval, g_iter, calls, probe>>

IncStore(t) ==
  /\ tpc[t] = "store"
  /\ g_errorCount' = ttmp[t] + 1
  /\ tpc' = [tpc EXCEPT ![t] = "idle"]
  /\ ttmp' = [ttmp EXCEPT ![t] = 0]
  /\ UNCHANGED <<ncols, nrows, dem0, num_images, max_iterations, num_threads, camera,
                 dem, par, A, pc, loop, blocks, constant, step, iter, lastEval,
                 g_iter, calls, probe>>

\* The parameter blocks the solver updates: those of the problem that are
\* not set constant.
Variable(c) == c \in AddedParams /\ c \notin constant

\* The solver computes its step: a new value for a variable block, still
\* in the solver's own state when the block is a cell of the DEM.  The
\* block A has two doubles; a step on it is a new A[1].
SolverWrite(c, h) ==
  /\ pc = "solve" /\ step = "propose"
  /\ Variable(c)
  /\ IF c = ParamA
     THEN /\ A' = [A EXCEPT !.a1 = h]
          /\ A' # A
          /\ par' = par
     ELSE /\ h # par[c]
          /\ Cardinality({d \in DOMAIN dem : par[d] # dem[d]} \cup {c}) <= MaxStep
          /\ par' = [par EXCEPT ![c] = h]
          /\ A' = A
  /\ UNCHANGED <<ncols, nrows, dem0, num_images, max_iterations, num_threads, camera,
                 dem, g_errorCount, pc, loop, blocks, constant, step, iter,
                 tpc, ttmp, lastEval, g_iter, calls, probe>>

\* The step is computed; the residuals are evaluated on it next.
EndPropose ==
  /\ pc = "solve" /\ step = "propose"
  /\ step' = "evaluate"
  /\ UNCHANGED <<ncols, nrows, dem0, num_images, max_iterations, num_threads, camera,
                 dem, par, g_errorCount, A, pc, loop, blocks, constant, iter, tpc,
                 ttmp, lastEval, g_iter, calls, probe>>

\* The solver not waiting for its threads: for comparison only.
EvaluationOverAnyway == TRUE

\* ceres::Solve evaluates the residual blocks on its threads and goes on
\* when all of them have returned.
EvaluationOver == \A t \in Threads : tpc[t] = "idle"

\* Every Intensity Residual of the problem evaluates on the solver's
\* parameter values: the functor returns true and the residual it leaves
\* is a number (the solver takes a NaN or infinite residual for a failed
\* evaluation).
StepValid ==
  \A b \in 1 .. Len(blocks) :
    blocks[b].kind = "intensity" =>
      LET r == IntensityError(A, par[blocks[b].params[6]], par[blocks[b].params[7]],
                              par[blocks[b].params[3]], blocks[b].col, blocks[b].row,
                              g_errorCount, camera, blocks[b].image)
      IN r.ret /\ r.residual.k # "nan"

\* The evaluations of an iteration are over.  The solver ends with a
\* failure when a residual does not evaluate on the initial values, and it
\* takes no step on which one does not.  An accepted step is copied to the
\* DEM, the parameter update of the iteration
\* (update_state_every_iteration, line 906); a rejected one is dropped.
EndEvaluate(accept) ==
  /\ pc = "solve" /\ step = "evaluate"
  /\ EvaluationOver
  /\ accept => StepValid
  /\ dem' = IF accept THEN par ELSE dem
  /\ par' = dem'
  /\ step' = IF iter = 0 /\ ~StepValid THEN "Failed" ELSE "callback"
  /\ UNCHANGED <<ncols, nrows, dem0, num_images, max_iterations, num_threads, camera,
                 g_errorCount, A, pc, loop, blocks, constant, iter, tpc,
                 ttmp, lastEval, g_iter, calls, probe>>

\* g_iter++ of line 510.
NextIter(i) == i + 1

\* The artifact names of lines 518, 532 and 544 for iteration index i.
DemFile(i) == <<"final-DEM", i>>
IntensityFile(i) == <<"measured-intensity", i>>
ReflectanceFile(i) == <<"computed-intensity", i>>

\* SfsCallback::operator(), lines 507-558.  An exception of the camera
\* leaves the callback after the DEM was written, through ceres::Solve and
\* main()'s try block.
SfsCallback ==
  /\ pc = "solve" /\ step = "callback"
  /\ g_iter' = NextIter(g_iter)
  /\ LET b == BatchReflectanceAndIntensity
     IN /\ g_errorCount' = b.errorCount
        /\ IF b.thrown
           THEN /\ calls' = Append(calls, [wrote |-> <<DemFile(g_iter')>>,
                                           returned |-> "threw"])
                /\ pc' = "threw_callback"
                /\ step' = step
           ELSE /\ calls' = Append(calls,
                              [wrote |-> <<DemFile(g_iter'), IntensityFile(g_iter'),
                                           ReflectanceFile(g_iter')>>,
                               returned |-> "SOLVER_CONTINUE"])
                /\ pc' = pc
                /\ step' = "decide"
  /\ UNCHANGED <<ncols, nrows, dem0, num_images, max_iterations, num_threads, camera,
                 dem, par, A, loop, blocks, constant, iter, tpc, ttmp, lastEval,
                 probe>>

\* The solver goes on to its next iteration.
Continue ==
  /\ pc = "solve" /\ step = "decide"
  /\ iter < max_iterations
  /\ iter' = iter + 1
  /\ step' = "propose"
  /\ UNCHANGED <<ncols, nrows, dem0, num_images, max_iterations, num_threads, camera,
                 dem, par, g_errorCount, A, pc, loop, blocks, constant, tpc, ttmp,
                 lastEval, g_iter, calls, probe>>

\* The solver ends: options.max_num_iterations is reached, its tolerances
\* are met, or it reports a failure.
Terminate(how) ==
  /\ pc = "solve" /\ step = "decide"
  /\ how = "MaxIterationsReached" => iter >= max_iterations
  /\ how # "MaxIterationsReached" => iter < max_iterations
  /\ step' = how
  /\ UNCHANGED <<ncols, nrows, dem0, num_images, max_iterations, num_threads, camera,
                 dem, par, g_errorCount, A, pc, loop, blocks, constant, iter, tpc,
                 ttmp, lastEval, g_iter, calls, probe>>

\* Line 922: summary.FullReport() is printed.
Summary ==
  /\ pc = "solve"
  /\ step \in {"Converged", "MaxIterationsReached", "Failed"}
  /\ pc' = "done"
  /\ UNCHANGED <<ncols, nrows, dem0, num_images, max_iterations, num_threads, camera,
                 dem, par, g_errorCount, A, loop, blocks, constant, step, iter, tpc,
                 ttmp, lastEval, g_iter, calls, probe>>

Next ==
  \/ EstimateAffine
  \/ AssembleCell
  \/ StartSolve
  \/ \E t \in Threads, b \in 1 .. Len(blocks) : EvalIntensity(t, b)
  \/ \E t \in Threads : IncLoad(t)
  \/ \E t \in Threads : IncStore(t)
  \/ \E c \in Cells(ncols, nrows) \cup {ParamA}, h \in Heights : SolverWrite(c, h)
  \/ EndPropose
  \/ \E accept \in BOOLEAN : EndEvaluate(accept)
  \/ SfsCallback
  \/ Continue
  \/ \E how \in {"Converged", "MaxIterationsReached", "Failed"} : Terminate(how)
  \/ Summary

Spec == Init /\ [][Next]_vars

(* ------------------- the out-of-range test by itself ------------------ *)
\* The pixels put to the test: every half pixel from one pixel left of
\* (below) the image to one pixel right of (above) it.
MaxPix == MaxDim

ProbeCoords == (0 - HalfPixel) .. (HalfPixel * MaxPix + 1)

InitPixel ==
  /\ ncols \in 1 .. MaxPix
  /\ nrows \in 1 .. MaxPix
  /\ num_images = 1
  /\ max_iterations = 0
  /\ num_threads = 1
  /\ camera = PlainCamera
  /\ dem = FlatDem(ncols, nrows)
  /\ probe \in [px : ProbeCoords, py : ProbeCoords,
                tested : {FALSE}, inside : {FALSE}]
  /\ InitRest

\* Lines 454-462 applied to the pixel (px, py) and an image of the size of
\* the DEM.
TestPixel ==
  /\ ~probe.tested
  /\ probe' = [probe EXCEPT
                 !.tested = TRUE,
                 !.inside = PixelInRange(probe.px, probe.py,
                                         image_cols, image_rows)]
  /\ UNCHANGED <<ncols, nrows, dem0, num_images, max_iterations, num_threads, camera,
                 dem, par, g_errorCount, A, pc, loop, blocks, constant, step, iter,
                 tpc, ttmp, lastEval, g_iter, calls>>

NextPixel == TestPixel

SpecPixel == InitPixel /\ [][NextPixel]_vars

(* ------------------- the reflectance model by itself ------------------ *)
\* global_params.reflectanceType is an int: the three enumerated kinds and
\* the values beyond them.
MaxKind == 3

ModelKinds == 0 .. MaxKind

\* dot_prod(normal, normal): a unit normal, and normals that are not.
NormalLens == {Milli, Milli - 1, Milli + 1, 4 * Milli}

\* mu_0 and mu: cosines, on both sides of 0 and of tol.
SunCosines == {0 - 500, 0, tol - 1, tol, Milli}

ViewCosines == {0 - 500, 0, Milli}

\* dot_prod(sunDirection, viewDirection): the cosines of 0, 30, 90 and 180
\* degrees, and the values that rounding leaves beyond 1 and -1.
CosAlphas == {CosAbove, Milli, 866, 0, 0 - Milli, CosBelow}

\* exp(-phaseCoeffC1*alpha).
ExpTerms == {Milli, 485, 114, 13}

\* phaseCoeffC2 is a double of GlobalParams: the run's value (line 764),
\* zero, and a negative one.
PhaseCoeffs == {phaseCoeffC2, 0, 0 - 2 * Milli}

InitReflectance ==
  /\ ncols = 1
  /\ nrows = 1
  /\ num_images = 1
  /\ max_iterations = 0
  /\ num_threads = 1
  /\ camera = PlainCamera
  /\ dem = FlatDem(ncols, nrows)
  /\ probe \in [reflectanceType : ModelKinds, overload : AbsOverloads,
                len : NormalLens, mu_0 : SunCosines, mu : ViewCosines,
                cos_alpha : CosAlphas, expTerm : ExpTerms, c2 : PhaseCoeffs,
                tested : {FALSE}, exit : {FALSE}, nan : {FALSE}, value : {0}]
  /\ InitRest

\* ComputeReflectance (lines 355-388) applied to the input.
TestReflectance ==
  /\ ~probe.tested
  /\ LET r == ComputeReflectance(probe.reflectanceType, probe.overload,
                                 probe.len, probe.mu_0, probe.mu,
                                 probe.cos_alpha, probe.expTerm, probe.c2)
     IN probe' = [probe EXCEPT !.tested = TRUE, !.exit = r.exit,
                               !.nan = r.nan, !.value = r.value]
  /\ UNCHANGED <<ncols, nrows, dem0, num_images, max_iterations, num_threads, camera,
                 dem, par, g_errorCount, A, pc, loop, blocks, constant, step, iter,
                 tpc, ttmp, lastEval, g_iter, calls>>

NextReflectance == TestReflectance

SpecReflectance == InitReflectance /\ [][NextReflectance]_vars

(* ------------------ the Smoothness Residual by itself ----------------- *)
\* The functor with tr, br, tl, bl mixed up in u_xy: for comparison only.
SmoothnessErrorCorners(tl, top, tr, left, center, right, bl, bottom, br, weight, gsize) ==
  LET gs == gsize * gsize
      u_xx == ((left + right - 2 * center) * Milli) \div gs
      u_xy == (((tr + br - tl - bl) * Milli) \div 4) \div gs
      u_yy == ((top + bottom - 2 * center) * Milli) \div gs
  IN [ret |-> TRUE,
      residuals |-> <<(u_xx * weight) \div Milli, (u_xy * weight) \div Milli,
                      (u_xy * weight) \div Milli, (u_yy * weight) \div Milli>>]

\* SmoothnessError::operator(), lines 656-682, with m_smoothness_weight =
\* weight (in 1/Milli) and m_grid_size = gsize.  Nothing in the try block
\* throws PointToPixelErr, so the catch is never entered.
SmoothnessError(tl, top, tr, left, center, right, bl, bottom, br, weight, gsize) ==
  LET gs == gsize * gsize
      u_xx == ((left + right - 2 * center) * Milli) \div gs
      u_xy == (((tr + bl - tl - br) * Milli) \div 4) \div gs
      u_yy == ((top + bottom - 2 * center) * Milli) \div gs
  IN [ret |-> TRUE,
      residuals |-> <<(u_xx * weight) \div Milli, (u_xy * weight) \div Milli,
                      (u_xy * weight) \div Milli, (u_yy * weight) \div Milli>>]

\* The slopes and grid sizes of the neighborhoods put to the test.
MaxSlope == 2
MaxGrid == 2

\* The offsets (col, row) of tl, top, tr, left, center, right, bl, bottom,
\* br from the center (lines 640-642).
Offsets ==
  << <<0 - 1, 1>>, <<0, 1>>, <<1, 1>>,
     <<0 - 1, 0>>, <<0, 0>>, <<1, 0>>,
     <<0 - 1, 0 - 1>>, <<0, 0 - 1>>, <<1, 0 - 1>> >>

\* Nine heights: a ramp a + b*col + c*row, with the mixed term m*col*row
\* and with one cell raised by bump (cell 0: none).
Surface(a, b, c, m, cell, bump) ==
  [i \in 1 .. 9 |->
     a + b * Offsets[i][1] + c * Offsets[i][2]
       + m * Offsets[i][1] * Offsets[i][2]
       + (IF i = cell THEN bump ELSE 0)]

Surfaces ==
  {Surface(a, b, c, m, cell, 1) :
     a \in {0, 5}, b \in (0 - MaxSlope) .. MaxSlope,
     c \in (0 - MaxSlope) .. MaxSlope, m \in {0, 1}, cell \in {0, 1, 5, 6}}

\* opt.smoothness_weight, in 1/Milli.
Weights == {0, Milli, 2500}

InitSmoothness ==
  /\ ncols = 1
  /\ nrows = 1
  /\ num_images = 1
  /\ max_iterations = 0
  /\ num_threads = 1
  /\ camera = PlainCamera
  /\ dem = FlatDem(ncols, nrows)
  /\ probe \in [heights : Surfaces, weight : Weights, gsize : 1 .. MaxGrid,
                tested : {FALSE}, ret : {FALSE},
                residuals : {<<0, 0, 0, 0>>}]
  /\ InitRest

\* The functor applied to the nine heights.
TestSmoothness ==
  /\ ~probe.tested
  /\ LET h == probe.heights
         r == SmoothnessError(h[1], h[2], h[3], h[4], h[5], h[6], h[7], h[8],
                              h[9], probe.weight, probe.gsize)
     IN probe' = [probe EXCEPT !.tested = TRUE, !.ret = r.ret,
                               !.residuals = r.residuals]
  /\ UNCHANGED <<ncols, nrows, dem0, num_images, max_iterations, num_threads, camera,
                 dem, par, g_errorCount, A, pc, loop, blocks, constant, step, iter,
                 tpc, ttmp, lastEval, g_iter, calls>>

NextSmoothness == TestSmoothness

SpecSmoothness == InitSmoothness /\ [][NextSmoothness]_vars

(* ---------------------------- properties ------------------------------ *)
\* The loop of lines 833-890 is over.
AssemblyOver == pc \in {"solve", "done", "fatal", "threw_callback"}

\* The outer ring of the grid, and the grid points inside it.
Ring(c) ==
  c[1] = 0 \/ c[2] = 0 \/ c[1] = ncols - 1 \/ c[2] = nrows - 1

Interior(c) ==
  /\ 1 <= c[1] /\ c[1] <= ncols - 2
  /\ 1 <= c[2] /\ c[2] <= nrows - 2

\* An evaluation that read a no-data height.
HasNoData(e) == nodata_val \in {e.center, e.right, e.top}

Max0(n) == IF n > 0 THEN n ELSE 0

\* C1: on a grid of at least 3 x 3, once the problem is assembled every
\* cell of the outer ring is set constant, the solver holds it as a
\* constant block, and it holds its initial height in the DEM and in the
\* solver's values whatever steps the solver has taken.
C1_BoundaryPinned ==
  (pc \in {"solve", "done", "threw_callback"} /\ ncols >= 3 /\ nrows >= 3) =>
    \A c \in Cells(ncols, nrows) :
      Ring(c) => /\ c \in constant
                 /\ ~Variable(c)
                 /\ dem[c] = dem0[c]
                 /\ par[c] = dem0[c]

\* A 4 x 4 or larger run that ended after the solver changed the DEM.
C1_Reached ==
  /\ pc = "done"
  /\ ncols >= 4 /\ nrows >= 4
  /\ dem # dem0

\* C2: every Intensity Residual evaluation that reads a no-data height
\* reports failure and leaves the residual at the sentinel.
C2_NoDataFailsClosed ==
  (lastEval.col >= 0 /\ HasNoData(lastEval)) =>
    (~lastEval.ret /\ lastEval.residual = Sentinel)

\* C3 as stated: the error counter is incremented once and no more,
\* whatever the interleaving of the solver threads.
C3_CountedOnce == g_errorCount <= 1

\* C3: the error counter never exceeds the number of solver threads (so it
\* is at most 1 with a single thread and before the solver runs), and it
\* is at least 1 once a no-data height was sampled and the increments that
\* were due have run.
C3_CountBounded ==
  /\ g_errorCount \in 0 .. num_threads
  /\ pc \in {"estimate", "assemble", "threw_estimate", "fatal"} => g_errorCount <= 1
  /\ (lastEval.col >= 0 /\ HasNoData(lastEval)
        /\ \A t \in Threads : tpc[t] = "idle") => g_errorCount >= 1
  /\ (pc \notin {"estimate", "threw_estimate"}
        /\ \E c \in Cells(ncols, nrows) :
             dem0[c] = nodata_val /\ c # <<ncols - 1, nrows - 1>>
                /\ ncols > 1 /\ nrows > 1) => g_errorCount >= 1

\* Two solver threads both found the counter at 0 and both incremented it.
C3_Reached ==
  /\ num_threads = 2
  /\ g_errorCount = 2
  /\ \A t \in Threads : tpc[t] = "idle"

\* C4: a failure of the camera projection never ends the run: not in the
\* initial affine estimation and not in a per-iteration callback.
C4_ProjectionFailureRecoverable ==
  pc \notin {"threw_estimate", "threw_callback"}

\* C5: an Intensity Residual evaluation either fails (no-data, projection
\* error or out of bounds), returns failure and leaves the sentinel, or
\* succeeds, returns success and leaves exactly
\* intensity - A[0]*reflectance - A[1].
C5_ResidualOutcome ==
  lastEval.col >= 0 =>
    LET pix == point_to_pixel(camera, lastEval.col, lastEval.row)
        fails == \/ HasNoData(lastEval)
                 \/ CameraThrows(camera, lastEval.center)
                 \/ ~PixelInRange(pix[1], pix[2], image_cols, image_rows)
    IN IF fails
       THEN ~lastEval.ret /\ lastEval.residual = Sentinel
       ELSE /\ lastEval.ret
            /\ lastEval.residual =
                 ResidualValue(A,
                   SurfaceReflectance(camera, lastEval.col, lastEval.row,
                                      lastEval.center, lastEval.right, lastEval.top),
                   Num(BilinearInterp(lastEval.image, pix[1], pix[2])))

\* The blocks cover the interior and nothing else: the k-th interior grid
\* point in the order of the loop (col outside, row inside) has the
\* Intensity Residual at 2k+1 and the Smoothness Residual at 2k+2, bound
\* to tl, top, tr, left, center, right, bl, bottom, br.
InteriorCovered ==
  /\ \A b \in 1 .. Len(blocks) :
       LET col == blocks[b].col
           row == blocks[b].row
           nine == << <<col - 1, row + 1>>, <<col, row + 1>>, <<col + 1, row + 1>>,
                      <<col - 1, row>>, <<col, row>>, <<col + 1, row>>,
                      <<col - 1, row - 1>>, <<col, row - 1>>, <<col + 1, row - 1>> >>
       IN /\ Interior(<<col, row>>)
          /\ b = 2 * ((col - 1) * (nrows - 2) + (row - 1)) + (IF blocks[b].kind = "intensity" THEN 1 ELSE 2)
          /\ blocks[b].kind \in {"intensity", "smoothness"}
          /\ blocks[b].params = (IF blocks[b].kind = "intensity"
                                 THEN <<ParamA>> \o nine ELSE nine)
  /\ \A c \in Cells(ncols, nrows) :
       Interior(c) =>
         \A kind \in {"intensity", "smoothness"} :
           Cardinality({b \in 1 .. Len(blocks) :
                          /\ blocks[b].kind = kind
                          /\ <<blocks[b].col, blocks[b].row>> = c}) = 1

\* C6 as stated: the assembled blocks cover exactly the interior, in the
\* stated order, and their number is 2*(cols-2)*(rows-2).
C6_CoverageProduct ==
  AssemblyOver =>
    /\ InteriorCovered
    /\ Len(blocks) = 2 * (ncols - 2) * (nrows - 2)

\* C6: the assembled blocks cover exactly the interior, in the stated
\* order, and their number is 2*(cols-2)*(rows-2) when cols >= 2 and
\* rows >= 2 and 0 on a grid with a single column or a single row.
C6_Coverage ==
  AssemblyOver =>
    /\ InteriorCovered
    /\ Len(blocks) = 2 * Max0(ncols - 2) * Max0(nrows - 2)

\* An assembled 4 x 4 grid: four interior points, eight blocks.
C6_Reached ==
  /\ AssemblyOver
  /\ ncols = 4 /\ nrows = 4
  /\ Len(blocks) = 8

\* C7 as stated: with N images every interior grid point has N Intensity
\* Residual blocks, one bound to each image.
C7_BlockPerImage ==
  AssemblyOver =>
    \A c \in Cells(ncols, nrows) :
      Interior(c) =>
        \A i \in 0 .. num_images - 1 :
          Cardinality({b \in 1 .. Len(blocks) :
                         /\ blocks[b].kind = "intensity"
                         /\ <<blocks[b].col, blocks[b].row>> = c
                         /\ blocks[b].image = i}) = 1

\* C7: whatever the number of images, every interior grid point has one
\* Intensity Residual block, and it is bound to the first image.
C7_BlockOfFirstImage ==
  AssemblyOver =>
    /\ \A c \in Cells(ncols, nrows) :
         Interior(c) =>
           Cardinality({b \in 1 .. Len(blocks) :
                          /\ blocks[b].kind = "intensity"
                          /\ <<blocks[b].col, blocks[b].row>> = c}) = 1
    /\ \A b \in 1 .. Len(blocks) :
         blocks[b].kind = "intensity" => blocks[b].image = 0

\* A problem assembled from two images.
C7_Reached ==
  /\ AssemblyOver
  /\ num_images = 2
  /\ ncols >= 3 /\ nrows >= 3
  /\ Len(blocks) > 0

\* C8 as stated: a pixel is accepted exactly when it is in
\* [0, cols-2] x [0, rows-2].
C8_InsideMargin ==
  probe.tested =>
    (probe.inside <=>
       /\ 0 <= probe.px /\ probe.px <= HalfPixel * (image_cols - 2)
       /\ 0 <= probe.py /\ probe.py <= HalfPixel * (image_rows - 2))

\* C8: a pixel is accepted exactly when 0 <= x < cols-1 and
\* 0 <= y < rows-1; for whole pixels that is [0, cols-2] x [0, rows-2].
C8_InsideHalfOpen ==
  probe.tested =>
    /\ probe.inside <=>
         /\ 0 <= probe.px /\ probe.px < HalfPixel * (image_cols - 1)
         /\ 0 <= probe.py /\ probe.py < HalfPixel * (image_rows - 1)
    /\ (probe.px % HalfPixel = 0 /\ probe.py % HalfPixel = 0) =>
         (probe.inside <=>
            /\ 0 <= probe.px /\ probe.px <= HalfPixel * (image_cols - 2)
            /\ 0 <= probe.py /\ probe.py <= HalfPixel * (image_rows - 2))

\* A pixel half way between cols-2 and cols-1 was tested and accepted.
C8_Reached ==
  /\ probe.tested /\ probe.inside
  /\ image_cols >= 3
  /\ probe.px = HalfPixel * (image_cols - 2) + 1

\* The solver is iterating.
Iterating ==
  pc = "solve" /\ step \in {"propose", "evaluate", "callback", "decide"}

\* C9: the solve loop is left only to Converged, MaxIterationsReached or
\* Failed, every callback invocation returns SOLVER_CONTINUE, and the
\* iteration count stays within max_iterations.
C9_LoopLeftBySolver ==
  [][/\ (Iterating /\ ~Iterating') =>
          (pc' = "solve"
             /\ step' \in {"Converged", "MaxIterationsReached", "Failed"})
     /\ calls' # calls => calls'[Len(calls')].returned = "SOLVER_CONTINUE"
     /\ iter' <= max_iterations]_vars

\* C10: the counter is the number of invocations less one, so the k-th
\* invocation writes under index k-1; every invocation writes its DEM,
\* its observed-intensity and its predicted-intensity artifact, all under
\* its index; no artifact name is written twice.
C10_ArtifactsNumbered ==
  /\ g_iter = Len(calls) - 1
  /\ \A k \in 1 .. Len(calls) :
       calls[k].wrote = << <<"final-DEM", k - 1>>,
                           <<"measured-intensity", k - 1>>,
                           <<"computed-intensity", k - 1>> >>
  /\ \A k1, k2 \in 1 .. Len(calls) :
       \A j1 \in 1 .. Len(calls[k1].wrote), j2 \in 1 .. Len(calls[k2].wrote) :
         calls[k1].wrote[j1] = calls[k2].wrote[j2] => (k1 = k2 /\ j1 = j2)

\* C11: a step that changes a height, in the DEM or in the solver's own
\* values, is a step of the solver taken while no thread is inside a
\* residual evaluation; it is not an evaluation and not a callback, and
\* the DEM itself changes only where the evaluations of an iteration end
\* and the callback has not yet begun.
C11_NoConcurrentMutation ==
  [][/\ (dem' # dem \/ par' # par) =>
          /\ \A t \in Threads : tpc[t] = "idle"
          /\ pc = "solve" /\ step \in {"propose", "evaluate"}
          /\ tpc' = tpc /\ lastEval' = lastEval /\ calls' = calls
     /\ dem' # dem => (step = "evaluate" /\ step' # "evaluate")
     /\ (lastEval' # lastEval \/ tpc' # tpc \/ calls' # calls) =>
          (dem' = dem /\ par' = par)]_vars

\* A run of two solver threads ended after residuals were evaluated and
\* the DEM was changed.
C11_Reached ==
  /\ pc = "done"
  /\ num_threads = 2
  /\ lastEval.col >= 0
  /\ dem # dem0

\* C12: after the initial estimation A never changes, and whenever the
\* solver runs A is a constant block of the problem.
C12_AffineFrozen ==
  [][/\ pc # "estimate" => A' = A
     /\ pc' \in {"solve", "done", "threw_callback"} =>
          (ParamA \in constant' /\ ParamA \in AddedParams')]_vars

\* A run ended with a finite A after the solver changed the DEM and the
\* callback ran twice.
C12_Reached ==
  /\ pc = "done"
  /\ A.finite
  /\ dem # dem0
  /\ Len(calls) = 2

\* Mean and standard deviation of the image I over the cells S alone.
StatsOver(I, S) ==
  LET count == Cardinality(S)
      mean == IF count > 0 THEN SumOver(I, S, 1) \div count ELSE 0
  IN [count |-> count, mean |-> mean,
      stdev |-> IF count > 0
                THEN ISqrt(SumOver(I, S, 2) \div count - mean * mean) ELSE 0,
      finite |-> \A c \in S : I[c].k = "num"]

\* A[0] = imgstdev/refstdev and A[1] = imgmean - A[0]*refmean from the
\* statistics over the cells S alone.
EstimateAOver(reflectance, intensity, S) ==
  LET img == StatsOver(intensity, S)
      ref == StatsOver(reflectance, S)
  IN IF ~img.finite \/ ~ref.finite \/ ref.stdev = 0
     THEN [finite |-> FALSE, a0 |-> 0, a1 |-> 0]
     ELSE LET a0 == (img.stdev * Milli) \div ref.stdev
          IN [finite |-> TRUE, a0 |-> a0,
              a1 |-> img.mean - (a0 * ref.mean) \div Milli]

\* C13: the initial estimation leaves in A the values computed from the
\* statistics over the cells whose sample succeeded; the cells whose
\* sample failed and the last column and row contribute nothing.
C13_StatsOverSampled ==
  [][(pc = "estimate" /\ pc' = "assemble") =>
       LET b == BatchReflectanceAndIntensity
       IN A' = EstimateAOver(b.reflectance, b.intensity, b.sampled)]_vars

\* The enumerated model kinds.
EnumeratedKinds == {NO_REFL, LAMBERT, LUNAR_LAMBERT}

\* The normal's squared length is off 1 by more than 1e-4.
NonUnit(len) == 10 * Abs(len - Milli) > 1

\* C14: under each of the three model kinds, the reflectance of a normal
\* that is not of unit length ends in the fatal exit.
C14_NonUnitFatal ==
  (probe.tested /\ probe.reflectanceType \in EnumeratedKinds
     /\ NonUnit(probe.len)) => probe.exit

\* C15: the Lunar-Lambertian reflectance of a unit normal is returned, is
\* a finite number, is never negative, and is 0 when mu_0 < tol.
C15_NeverNegative ==
  (probe.tested /\ probe.reflectanceType = LUNAR_LAMBERT
     /\ ~NonUnit(probe.len)) =>
    /\ ~probe.exit
    /\ ~probe.nan
    /\ probe.value >= 0
    /\ probe.mu_0 < tol => probe.value = 0

\* C17: a model kind that is not enumerated is rejected, and the constant
\* reflectance 1 comes from the kind NO_REFL alone.
C17_NoDefaultKind ==
  (probe.tested /\ probe.reflectanceType \notin EnumeratedKinds) =>
    (probe.exit /\ probe.value # Milli)

\* The nine heights are an affine function of (col, row): the one through
\* center, right and top.
IsPlane(h) ==
  \A i \in 1 .. 9 :
    h[i] = h[5] + (h[6] - h[5]) * Offsets[i][1] + (h[2] - h[5]) * Offsets[i][2]

\* C16: on nine heights that are an affine function of (col, row), equal
\* heights among them, the functor returns true and leaves u_xx, u_xy,
\* u_yx and u_yy at 0, whatever the weight and the grid size.
C16_ZeroOnPlanes ==
  (probe.tested /\ IsPlane(probe.heights)) =>
    (probe.ret /\ probe.residuals = <<0, 0, 0, 0>>)

\* A ramp that slopes along both axes was evaluated under a weight.
C16_Reached ==
  /\ probe.tested
  /\ IsPlane(probe.heights)
  /\ probe.heights[6] # probe.heights[5]
  /\ probe.heights[2] # probe.heights[5]
  /\ probe.weight > 0
  /\ probe.gsize = 2

\* C18: on every grid, every block set constant is a block that a residual
\* block has brought into the problem, and no SetParameterBlockConstant
\* call meets a block the problem does not hold.
C18_ConstantBlocksAdded ==
  /\ constant \subseteq AddedParams
  /\ pc # "fatal"

=============================================================================
